---- MODULE Spec2Model ----
(***************************************************************************)
(* Model of the Open Library dump orchestrator, scripts/oldump.py.  The    *)
(* orchestrator proper is the shell script kept in the module's raw string *)
(* (lines 54-229); the Python main() (lines 275-282) is an unfinished port. *)
(* The model follows the shell script statement by statement: bash runs    *)
(* without `set -e`, so a failing command never stops the script, and the  *)
(* skip checks are `[[ -f $(compgen -G pattern) ]]` tests, which succeed   *)
(* only when the pattern has exactly one match.                            *)
(***************************************************************************)
EXTENDS Integers, Sequences, FiniteSets, TLC

(* ------------------------------ bounds -------------------------------- *)
MaxMonth == 2
MaxDay == 2
MaxRuns == 2
MaxFaults == 1
MaxKey == 2
MaxRev == 2
MaxLen == 3

(* ------------------------------ names --------------------------------- *)
Months == 1..MaxMonth
Dates == Months \X (1..MaxDay)
NoDate == <<0, 0>>
Month(d) == d[1]

Types == {"author", "work"}
TypeKindFixed(t) == "type-"
TypeKind(t) == "type-" \o t
TypeKinds == {TypeKind(t) : t \in Types}
\* ol_dump_reading-log_D.txt.gz, ol_dump_ratings_D.txt.gz, ol_cdump_D.txt.gz,
\* ol_dump_D.txt.gz, ol_dump_<type>_D.txt.gz
FileKinds == {"reading-log", "ratings", "cdump", "dump"} \cup TypeKinds
\* the directories ol_cdump_D and ol_dump_D
DirKinds == {"cdumpdir", "dumpdir"}
DataName == [kind |-> "data", date |-> NoDate]
NoName == [kind |-> "none", date |-> NoDate]
Names == [kind : FileKinds \cup DirKinds, date : Dates] \cup {DataName}
N(k, d) == [kind |-> k, date |-> d]

\* A file is absent, partially written, or fully written by a successful
\* stage.  A directory is absent, empty, or holds its main file in one of
\* the two written states.
Status == {"none", "empty", "partial", "complete"}

Stages == <<"ReadingLog", "Ratings", "RawExtract", "CDump", "Sort", "Dump",
            "Split", "Archive", "Sitemap">>
GenStages == {"ReadingLog", "Ratings", "RawExtract", "CDump", "Sort", "Dump", "Split"}

\* command lines: $1 is the date, $2 and $3 the options
Options == {<<"", "">>, <<"--archive", "">>, <<"--archive", "--overwrite">>,
            <<"--overwrite", "">>, <<"--overwrite", "--archive">>}

Items == [kind : {"dump", "cdump"}, date : Dates]

VARIABLES
  pc,         \* position of the running script, "idle" when none runs
  args,       \* [date, a2, a3]: $1 $2 $3
  testing,    \* OLDUMP_TESTING is exported (line 53 uncommented)
  yymm,       \* `date +%Y-%m` of the current run
  wd,         \* $TMPDIR/dumps: Names -> Status
  parentData, \* $TMPDIR/data.txt.gz exists (the saved copy of lines 25-27)
  sitemaps,   \* $TMPDIR/sitemaps exists
  oldumpsort, \* $TMPDIR/oldumpsort exists
  creds,      \* /olsystem/etc/ia.ini exists
  ia,         \* archive.org: Items -> {"absent", "partial", "full"}
  log,        \* this run: sequence of [stage, res, by]
  uploads,    \* this run: set of [item, before, creds, tries, res]
  events,     \* this run: "cleanup" once cleanup() ran, "list-dump" once
              \* `ia list ${dump}` ran, "rm-oldumpsort" once line 176 ran
  exit,       \* exit status of the last run, -1 while running or before any
  prev,       \* the run before this one: [args, yymm, log, exit]
  runs,       \* number of invocations so far
  faults,     \* number of failures and interrupts injected so far
  tf          \* the stream transforms of one dump (sort, dump, split)

vars == <<pc, args, testing, yymm, wd, parentData, sitemaps, oldumpsort, creds, ia,
          log, uploads, events, exit, prev, runs, faults, tf>>

\* no transform under way
NoTransform == [phase |-> "none"]

NoArgs == [date |-> NoDate, a2 |-> "", a3 |-> ""]
NoRun == [args |-> NoArgs, yymm |-> 0, log |-> <<>>, exit |-> -1]

InitOrchestrator ==
  /\ pc = "idle"
  /\ args = NoArgs
  /\ testing \in BOOLEAN
  /\ yymm = 1
  \* when testing, a data.txt.gz saved from an earlier extraction may have
  \* been put in place (lines 24-27, 140)
  /\ \E d0 \in {"none", "complete"} :
       /\ d0 = "complete" => testing
       /\ wd = [n \in Names |-> IF n = DataName THEN d0 ELSE "none"]
  /\ parentData = TRUE
  /\ sitemaps = FALSE
  /\ oldumpsort = FALSE
  /\ creds \in BOOLEAN
  /\ ia = [i \in Items |-> "absent"]
  /\ log = <<>>
  /\ uploads = {}
  /\ events = {}
  /\ exit = -1
  /\ prev = NoRun
  /\ runs = 0
  /\ faults = 0

Init ==
  /\ InitOrchestrator
  /\ tf = NoTransform

(* --------------------------- shell helpers ---------------------------- *)
Existing == {n \in Names : wd[n] # "none"}
IsDir(n) == n.kind \in DirKinds
IsFile(n) == n.kind \notin DirKinds

\* compgen -G "ol_cdump_$yymm*"
GlobCdumpAny(m) == {n \in Existing : n.kind \in {"cdump", "cdumpdir"} /\ Month(n.date) = m}
\* compgen -G "ol_dump_reading-log_$yymm*.txt.gz"
GlobReadingLog(m) == {n \in Existing : n.kind = "reading-log" /\ Month(n.date) = m}
\* compgen -G "ol_dump_ratings_$yymm*.txt.gz"
GlobRatings(m) == {n \in Existing : n.kind = "ratings" /\ Month(n.date) = m}
\* compgen -G "ol_cdump_$yymm*.txt.gz"
GlobCdumpFile(m) == {n \in Existing : n.kind = "cdump" /\ Month(n.date) = m}
\* compgen -G "ol_dump_*.txt.gz": every ol_dump_ file of every date
GlobDumpAny == {n \in Existing : n.kind \in {"reading-log", "ratings", "dump"} \cup TypeKinds}
\* compgen -G "ol_dump_*_$yymm*.txt.gz": needs a "_" before the month, so
\* the full dump ol_dump_D.txt.gz does not match
GlobSplit(m) == {n \in Existing : n.kind \in {"reading-log", "ratings"} \cup TypeKinds
                                  /\ Month(n.date) = m}

\* [[ -d $(compgen -G pat) ]] and [[ -f $(compgen -G pat) ]]: the
\* substitution is not word-split, so two matches give a string with a
\* newline that names nothing, and no match gives the empty string.
TestD(matches) == Cardinality(matches) = 1 /\ \A n \in matches : IsDir(n)
TestF(matches) == Cardinality(matches) = 1 /\ \A n \in matches : IsFile(n)
TheOne(matches) == CHOOSE n \in matches : TRUE

\* A log entry says what a run did with a stage: res is "ok", "fail" or
\* "int" (interrupted) when the stage was executed, "skip" when a check
\* skipped it, "noop" when nothing was run and nothing checked.  by is the
\* artifact the skip check accepted and st its state at that moment; input
\* tells whether the stage's input existed when it started.
Entry(s, r, b, st, inp) == [stage |-> s, res |-> r, by |-> b, st |-> st, input |-> inp]
Skipped(s, b) == Entry(s, "skip", b, IF b \in Names THEN wd[b] ELSE "none", TRUE)
Ran(s, o, inp) == Entry(s, o, NoName, "none", inp)
Executed == {"ok", "fail", "int"}

\* [ "$archive" == "--archive" ] with archive=$2
ArchiveAnywhere == "--archive" \in {args.a2, args.a3}
ArchiveRequested == args.a2 = "--archive"
\* [[ $@ == *'--overwrite'* ]]
OverwriteRequested == "--overwrite" \in {args.a2, args.a3}

(* ----------------------------- actions -------------------------------- *)
\* [ $# -lt 1 ], line 68
NoArgumentsIgnored(d) == FALSE
NoArguments(d) == d = NoDate

\* lines 60-71 and 100-101: read the arguments, refuse an empty command line
Begin(d, a2, a3, m) ==
  /\ args' = [date |-> d, a2 |-> a2, a3 |-> a3]
  /\ yymm' = m
  /\ IF NoArguments(d)
       THEN pc' = "idle" /\ exit' = 1
       ELSE pc' = "overwrite" /\ exit' = -1
  /\ log' = <<>>
  /\ uploads' = {}
  /\ events' = {}
  /\ runs' = runs + 1
  /\ UNCHANGED <<tf, testing, wd, parentData, sitemaps, oldumpsort, creds, ia, faults>>

\* an invocation with any command line, in the current month or a later one
Invoke ==
  /\ pc = "idle"
  /\ runs < MaxRuns
  /\ \E d \in Dates \cup {NoDate}, o \in Options, m \in Months :
       /\ m >= yymm
       /\ d = NoDate => (o = <<"", "">>)
       /\ Begin(d, o[1], o[2], m)
  /\ prev' = NoRun

\* an invocation with the command line of the run before, which is
\* remembered in prev
Reinvoke ==
  /\ pc = "idle"
  /\ runs > 0
  /\ runs < MaxRuns
  /\ args.date # NoDate
  /\ \E m \in Months :
       /\ m >= yymm
       /\ Begin(args.date, args.a2, args.a3, m)
  /\ prev' = [args |-> args, yymm |-> yymm, log |-> log, exit |-> exit]

\* cleanup(): rm -f $TMPDIR/data.txt.gz; rm -rf $TMPDIR/dumps/ol_*
cleanupWorkingData(w) == [n \in Names |-> "none"]
cleanup(w) == [n \in Names |-> IF n = DataName THEN w[n] ELSE "none"]

\* lines 103-111
Overwrite ==
  /\ pc = "overwrite"
  /\ IF OverwriteRequested
       THEN wd' = cleanup(wd) /\ parentData' = FALSE /\ events' = events \cup {"cleanup"}
       ELSE UNCHANGED <<wd, parentData, events>>
  /\ pc' = "generation"
  /\ UNCHANGED <<tf, args, testing, yymm, sitemaps, oldumpsort, creds, ia, log, uploads,
                 exit, prev, runs, faults>>

SkipAll(b) == [i \in 1..7 |-> Skipped(Stages[i], b)]

\* line 114 and lines 186-188
GenerationCheck ==
  /\ pc = "generation"
  /\ IF TestD(GlobCdumpAny(yymm))
       THEN /\ log' = log \o SkipAll(TheOne(GlobCdumpAny(yymm)))
            /\ pc' = "archive"
       ELSE /\ log' = log
            /\ pc' = "reading-log"
  /\ UNCHANGED <<tf, events, args, testing, yymm, wd, parentData, sitemaps, oldumpsort, creds, ia,
                 uploads, exit, prev, runs, faults>>

\* What a stage leaves behind: `cmd | gzip -c > file` creates the file at
\* once; it is fully written only if the stage ran to its end without error.
Written(o) == IF o = "ok" THEN "complete" ELSE "partial"

\* Outcomes of a stage: it succeeds (only if its input is there), it fails
\* (always when the input is missing, otherwise an injected fault), or the
\* script is interrupted while the stage runs (an injected fault).
CanEnd(o, inputOK) ==
  \/ o = "ok" /\ inputOK
  \/ o = "fail" /\ (~inputOK \/ faults < MaxFaults)
  \/ o = "int" /\ faults < MaxFaults
Cost(o, inputOK) == IF o = "ok" \/ (o = "fail" /\ ~inputOK) THEN 0 ELSE 1
Outcomes == {"ok", "fail", "int"}

\* No `set -e`: after a failed stage the script goes on with the next
\* statement; an interrupt ends the run.
Goto(o, next) ==
  /\ pc' = IF o = "int" THEN "idle" ELSE next
  /\ exit' = IF o = "int" THEN 130 ELSE exit

\* lines 118-124
ReadingLog ==
  /\ pc = "reading-log"
  /\ IF TestF(GlobReadingLog(yymm))
       THEN /\ log' = Append(log, Skipped("ReadingLog", TheOne(GlobReadingLog(yymm))))
            /\ pc' = "ratings"
            /\ UNCHANGED <<wd, exit, faults>>
       ELSE \E o \in Outcomes :
            /\ CanEnd(o, TRUE)
            /\ wd' = [wd EXCEPT ![N("reading-log", args.date)] = Written(o)]
            /\ log' = Append(log, Ran("ReadingLog", o, TRUE))
            /\ faults' = faults + Cost(o, TRUE)
            /\ Goto(o, "ratings")
  /\ UNCHANGED <<tf, events, args, testing, yymm, parentData, sitemaps, oldumpsort, creds, ia,
                 uploads, prev, runs>>

\* lines 127-133
Ratings ==
  /\ pc = "ratings"
  /\ IF TestF(GlobRatings(yymm))
       THEN /\ log' = Append(log, Skipped("Ratings", TheOne(GlobRatings(yymm))))
            /\ pc' = "data"
            /\ UNCHANGED <<wd, exit, faults>>
       ELSE \E o \in Outcomes :
            /\ CanEnd(o, TRUE)
            /\ wd' = [wd EXCEPT ![N("ratings", args.date)] = Written(o)]
            /\ log' = Append(log, Ran("Ratings", o, TRUE))
            /\ faults' = faults + Cost(o, TRUE)
            /\ Goto(o, "data")
  /\ UNCHANGED <<tf, events, args, testing, yymm, parentData, sitemaps, oldumpsort, creds, ia,
                 uploads, prev, runs>>

\* lines 136-146: with OLDUMP_TESTING set and no data.txt.gz nothing is
\* run and nothing is written (logged as a no-op)
RawExtract ==
  /\ pc = "data"
  /\ IF wd[DataName] # "none"
       THEN /\ log' = Append(log, Skipped("RawExtract", DataName))
            /\ pc' = "cdump"
            /\ UNCHANGED <<wd, exit, faults>>
       ELSE IF testing
         THEN /\ log' = Append(log, Entry("RawExtract", "noop", NoName, "none", TRUE))
              /\ pc' = "cdump"
              /\ UNCHANGED <<wd, exit, faults>>
         ELSE \E o \in Outcomes :
              /\ CanEnd(o, TRUE)
              /\ wd' = [wd EXCEPT ![DataName] = Written(o)]
              /\ log' = Append(log, Ran("RawExtract", o, TRUE))
              /\ faults' = faults + Cost(o, TRUE)
              /\ Goto(o, "cdump")
  /\ UNCHANGED <<tf, events, args, testing, yymm, parentData, sitemaps, oldumpsort, creds, ia,
                 uploads, prev, runs>>

\* lines 149-158: oldump.py cdump data.txt.gz | gzip -c > $cdump.txt.gz
CDump ==
  /\ pc = "cdump"
  /\ IF TestF(GlobCdumpFile(yymm))
       THEN /\ log' = Append(log, Skipped("CDump", TheOne(GlobCdumpFile(yymm))))
            /\ pc' = "dump"
            /\ UNCHANGED <<wd, exit, faults>>
       ELSE \E o \in Outcomes :
            LET inputOK == wd[DataName] # "none" IN
            /\ CanEnd(o, inputOK)
            /\ wd' = [wd EXCEPT ![N("cdump", args.date)] = Written(o)]
            /\ log' = Append(log, Ran("CDump", o, inputOK))
            /\ faults' = faults + Cost(o, inputOK)
            /\ Goto(o, "dump")
  /\ UNCHANGED <<tf, events, args, testing, yymm, parentData, sitemaps, oldumpsort, creds, ia,
                 uploads, prev, runs>>

\* lines 161-168: gzip -cd $(compgen -G "ol_cdump_$yymm*.txt.gz") |
\* oldump.py sort | oldump.py dump | gzip -c > $dump.txt.gz.  The input is
\* whatever cdump file of the current month there is, not $cdump.txt.gz.
SortDump ==
  /\ pc = "dump"
  /\ IF TestF(GlobDumpAny)
       THEN /\ log' = log \o <<Skipped("Sort", TheOne(GlobDumpAny)),
                               Skipped("Dump", TheOne(GlobDumpAny))>>
            /\ pc' = "split"
            /\ UNCHANGED <<wd, exit, faults>>
       ELSE \E o \in Outcomes :
            LET inputOK == GlobCdumpFile(yymm) # {} IN
            /\ CanEnd(o, inputOK)
            /\ wd' = [wd EXCEPT ![N("dump", args.date)] = Written(o)]
            /\ log' = log \o <<Ran("Sort", o, inputOK), Ran("Dump", o, inputOK)>>
            /\ faults' = faults + Cost(o, inputOK)
            /\ Goto(o, "split")
  /\ UNCHANGED <<tf, events, args, testing, yymm, parentData, sitemaps, oldumpsort, creds, ia,
                 uploads, prev, runs>>

\* lines 171-179: the split writes one file per type it meets in the dump
Split ==
  /\ pc = "split"
  /\ IF TestF(GlobSplit(yymm))
       THEN /\ log' = Append(log, Skipped("Split", TheOne(GlobSplit(yymm))))
            /\ pc' = "move"
            /\ UNCHANGED <<wd, oldumpsort, events, exit, faults>>
       ELSE \E o \in Outcomes, T \in SUBSET Types :
            LET inputOK == wd[N("dump", args.date)] # "none" IN
            /\ CanEnd(o, inputOK)
            /\ ~inputOK => T = {}
            /\ wd' = [n \in Names |->
                        IF n.date = args.date /\ n.kind \in {TypeKind(t) : t \in T}
                          THEN Written(o) ELSE wd[n]]
            /\ oldumpsort' = (o = "int")
            /\ events' = IF o = "int" THEN events ELSE events \cup {"rm-oldumpsort"}
            /\ log' = Append(log, Ran("Split", o, inputOK))
            /\ faults' = faults + Cost(o, inputOK)
            /\ Goto(o, "move")
  /\ UNCHANGED <<tf, args, testing, yymm, parentData, sitemaps, creds, ia, uploads, prev, runs>>

\* lines 181-183: mkdir -p $dump $cdump; mv ol_dump_*.txt.gz $dump;
\* mv $cdump.txt.gz $cdump.  Of the files moved into $dump only
\* $dump.txt.gz is followed; a directory's status is that of its main file.
mkdir(w, n) == IF w[n] = "none" THEN [w EXCEPT ![n] = "empty"] ELSE w
mvDumps(w, d) ==
  [n \in Names |->
     IF n.kind \in {"reading-log", "ratings", "dump"} \cup TypeKinds THEN "none"
     ELSE IF n = N("dumpdir", d) /\ w[N("dump", d)] # "none" THEN w[N("dump", d)]
     ELSE w[n]]
mvCdump(w, d) ==
  IF w[N("cdump", d)] = "none" THEN w
  ELSE [w EXCEPT ![N("cdumpdir", d)] = w[N("cdump", d)], ![N("cdump", d)] = "none"]

Move ==
  /\ pc = "move"
  /\ wd' = mvCdump(mvDumps(mkdir(mkdir(wd, N("dumpdir", args.date)),
                                 N("cdumpdir", args.date)), args.date), args.date)
  /\ pc' = "archive"
  /\ UNCHANGED <<tf, events, args, testing, yymm, parentData, sitemaps, oldumpsort, creds, ia, log,
                 uploads, exit, prev, runs, faults>>

SitemapsName == [kind |-> "sitemaps", date |-> NoDate]
Item(k) == [kind |-> k, date |-> args.date]

\* One `ia upload $item $item/ ... --retries 300` (lines 92-93).  r is what
\* the command achieves: "full" (all files stored), "partial" (it gave up
\* with some files stored) or "same" (it gave up with nothing stored).  It
\* can store something only if the directory exists and ia.ini holds the
\* keys.
CanUpload(k, r) == r = "same" \/ (wd[N(k \o "dir", args.date)] # "none" /\ creds)
UploadForced(k) == wd[N(k \o "dir", args.date)] = "none" \/ ~creds
Uploaded(k, r) ==
  IF r = "full" THEN "full"
  ELSE IF r = "partial" /\ ia[Item(k)] = "absent" THEN "partial"
  ELSE ia[Item(k)]

\* --retries 300: the number of times ia tries again after a transient
\* failure.  f is the number of transient failures in a row that the
\* service answers with (none, one, exactly as many as there are retries,
\* one more than that); the command gives up once the retries are used up.
Retries == 300
FailureRuns == {0, 1, Retries, Retries + 1}
TriesUnbounded(f) == f + 1
Tries(f) == IF f <= Retries THEN f + 1 ELSE Retries + 1
Consistent(k, f, r) ==
  /\ CanUpload(k, r)
  /\ UploadForced(k) => f = 0
  /\ ~UploadForced(k) => (r = "full" <=> f <= Retries)
UploadCost(k, f) == IF f = 0 \/ UploadForced(k) THEN 0 ELSE 1
Attempt(k, f, r) == [item |-> Item(k), before |-> ia[Item(k)], creds |-> creds,
                     tries |-> Tries(f), res |-> r]

\* archive_dumps(), lines 83-97: one `ia list $dump | wc -l` decides for
\* both items; a failing `ia list` prints nothing, which counts as 0.  The
\* two uploads are two statements, the second runs whatever the first did.
archive_dumps ==
  \E listOk \in BOOLEAN :
    /\ listOk \/ faults < MaxFaults
    /\ events' = events \cup {"list-dump"}
    /\ LET is_uploaded == IF listOk /\ ia[Item("dump")] # "absent" THEN 1 ELSE 0
           c0 == IF listOk THEN 0 ELSE 1
       IN IF is_uploaded = 0
            THEN \E r1, r2 \in {"full", "partial", "same"}, f1, f2 \in FailureRuns :
                 /\ Consistent("dump", f1, r1)
                 /\ Consistent("cdump", f2, r2)
                 /\ faults + c0 + UploadCost("dump", f1) + UploadCost("cdump", f2) <= MaxFaults
                 /\ faults' = faults + c0 + UploadCost("dump", f1) + UploadCost("cdump", f2)
                 /\ ia' = [ia EXCEPT ![Item("dump")] = Uploaded("dump", r1),
                                     ![Item("cdump")] = Uploaded("cdump", r2)]
                 /\ uploads' = uploads \cup {Attempt("dump", f1, r1), Attempt("cdump", f2, r2)}
                 /\ log' = Append(log, Ran("Archive",
                             IF r1 = "full" /\ r2 = "full" THEN "ok" ELSE "fail",
                             wd[N("dumpdir", args.date)] # "none"
                               /\ wd[N("cdumpdir", args.date)] # "none"))
            ELSE /\ log' = Append(log, Skipped("Archive", Item("dump")))
                 /\ faults' = faults + c0
                 /\ UNCHANGED <<ia, uploads>>

\* lines 195-196: only archive if the caller has requested it and we are
\* not testing
ShouldArchiveUngated == ArchiveRequested
ShouldArchive == ArchiveRequested /\ ~testing

\* lines 195-199
Archive ==
  /\ pc = "archive"
  /\ IF ShouldArchive
       THEN archive_dumps
       ELSE /\ log' = Append(log, Skipped("Archive", NoName))
            /\ UNCHANGED <<ia, uploads, faults, events>>
  /\ pc' = "sitemap"
  /\ UNCHANGED <<tf, args, testing, yymm, wd, parentData, sitemaps, oldumpsort, creds,
                 exit, prev, runs>>

\* lines 207-210: mkdir -p $TMPDIR/sitemaps ... rm -fr $TMPDIR/sitemaps; the
\* directory is left only when the script is interrupted in between
SitemapsKept(o) == TRUE
SitemapsLeft(o) == o = "int"

\* lines 204-214: sitemap.py reads $TMPDIR/dumps/$dump/$dump.txt.gz
Sitemap ==
  /\ pc = "sitemap"
  /\ IF sitemaps
       THEN /\ log' = Append(log, Skipped("Sitemap", SitemapsName))
            /\ pc' = "tail"
            /\ UNCHANGED <<sitemaps, exit, faults>>
       ELSE \E o \in Outcomes :
            LET inputOK == wd[N("dumpdir", args.date)] \in {"partial", "complete"} IN
            /\ CanEnd(o, inputOK)
            /\ sitemaps' = SitemapsLeft(o)
            /\ log' = Append(log, Ran("Sitemap", o, inputOK))
            /\ faults' = faults + Cost(o, inputOK)
            /\ Goto(o, "tail")
  /\ UNCHANGED <<tf, events, args, testing, yymm, wd, parentData, oldumpsort, creds, ia, uploads,
                 prev, runs>>

\* lines 216-228: the last command is an `if` whose body is an echo, so
\* the script's exit status is 0 whatever happened before
Finish ==
  /\ pc = "tail"
  /\ exit' = 0
  /\ pc' = "idle"
  /\ UNCHANGED <<tf, events, args, testing, yymm, wd, parentData, sitemaps, oldumpsort, creds, ia,
                 log, uploads, prev, runs, faults>>

Next ==
  \/ Invoke
  \/ Overwrite
  \/ GenerationCheck
  \/ ReadingLog
  \/ Ratings
  \/ RawExtract
  \/ CDump
  \/ SortDump
  \/ Split
  \/ Move
  \/ Archive
  \/ Sitemap
  \/ Finish

Spec == Init /\ [][Next]_vars

\* the first invocation of a series with one command line
InvokeFirst ==
  /\ runs = 0
  /\ Invoke

\* the runs after the first repeat the first run's command line
NextRerun ==
  \/ InvokeFirst
  \/ Reinvoke
  \/ Overwrite
  \/ GenerationCheck
  \/ ReadingLog
  \/ Ratings
  \/ RawExtract
  \/ CDump
  \/ SortDump
  \/ Split
  \/ Move
  \/ Archive
  \/ Sitemap
  \/ Finish

SpecRerun == Init /\ [][NextRerun]_vars

(* ------------------------- stream transforms -------------------------- *)
\* The transforms behind `oldump.py sort | oldump.py dump` (line 164) and
\* `oldump.py split --format ol_dump_%s_$yymmdd.txt.gz` (line 175), applied
\* to the content of one cdump file.  A history entry is a record
\* [key, rev, deleted, type].
Keys == 1..MaxKey
Revs == 1..MaxRev
Entries == [key : Keys, rev : Revs, deleted : BOOLEAN, type : Types]

\* the history of a store: each (key, revision) at most once, in the
\* order of extraction
Distinct(c) == \A i, j \in DOMAIN c : (c[i].key = c[j].key /\ c[i].rev = c[j].rev) => i = j
Streams == {c \in UNION {[1..n -> Entries] : n \in 0..MaxLen} : Distinct(c)}

\* External Sorter: order by (key, revision), every entry kept once
Before(a, b) == a.key < b.key \/ (a.key = b.key /\ a.rev <= b.rev)
RECURSIVE Insert(_, _)
Insert(e, c) ==
  IF c = <<>> THEN <<e>>
  ELSE IF Before(e, Head(c)) /\ ~Before(Head(c), e) THEN <<e>> \o c
  ELSE <<Head(c)>> \o Insert(e, Tail(c))
RECURSIVE Sorted(_)
Sorted(c) == IF c = <<>> THEN <<>> ELSE Insert(c[Len(c)], Sorted(SubSeq(c, 1, Len(c) - 1)))

\* what the dump command reads in the pipeline of line 164
Unsorted(c) == c
Piped(c) == Sorted(c)

\* Latest-Version Reducer: the winner of a group is its entry of maximum
\* revision, the later one on a tie; it is emitted unless deleted
Winner(g) ==
  g[CHOOSE i \in DOMAIN g :
      \A j \in DOMAIN g : g[j].rev < g[i].rev \/ (g[j].rev = g[i].rev /\ j <= i)]
Emit(out, g) ==
  IF g = <<>> \/ Winner(g).deleted THEN out ELSE Append(out, Winner(g))

StartTransform(c) ==
  [phase |-> "cdump", input |-> c, stream |-> <<>>, pos |-> 1, group |-> <<>>,
   rows |-> <<>>, files |-> [f \in TypeKinds |-> <<>>]]

InitTransform ==
  /\ InitOrchestrator
  /\ tf \in {StartTransform(c) : c \in Streams}

\* gzip -cd cdump | oldump.py sort: the whole input is sorted before the
\* reducer gets its first entry
SortStep ==
  /\ tf.phase = "cdump"
  /\ tf' = [tf EXCEPT !.phase = "dump", !.stream = Piped(tf.input), !.pos = 1]
  /\ UNCHANGED <<pc, args, testing, yymm, wd, parentData, sitemaps, oldumpsort, creds,
                 ia, log, uploads, events, exit, prev, runs, faults>>

\* oldump.py dump: one entry per step; on a change of key the group
\* gathered so far is reduced, at the end of the stream the last group is
DumpStep ==
  /\ tf.phase = "dump"
  /\ IF tf.pos > Len(tf.stream)
       THEN tf' = [tf EXCEPT !.phase = "split", !.rows = Emit(tf.rows, tf.group),
                             !.group = <<>>, !.pos = 1]
       ELSE LET e == tf.stream[tf.pos] IN
            IF tf.group # <<>> /\ tf.group[1].key # e.key
              THEN tf' = [tf EXCEPT !.rows = Emit(tf.rows, tf.group),
                                    !.group = <<e>>, !.pos = tf.pos + 1]
              ELSE tf' = [tf EXCEPT !.group = Append(tf.group, e), !.pos = tf.pos + 1]
  /\ UNCHANGED <<pc, args, testing, yymm, wd, parentData, sitemaps, oldumpsort, creds,
                 ia, log, uploads, events, exit, prev, runs, faults>>

\* oldump.py split --format ol_dump_%s_$yymmdd.txt.gz: one row per step,
\* appended to the file named after its type
SplitStep ==
  /\ tf.phase = "split"
  /\ IF tf.pos > Len(tf.rows)
       THEN tf' = [tf EXCEPT !.phase = "done"]
       ELSE LET r == tf.rows[tf.pos] IN
            tf' = [tf EXCEPT !.files[TypeKind(r.type)] = Append(@, r), !.pos = tf.pos + 1]
  /\ UNCHANGED <<pc, args, testing, yymm, wd, parentData, sitemaps, oldumpsort, creds,
                 ia, log, uploads, events, exit, prev, runs, faults>>

NextTransform ==
  \/ SortStep
  \/ DumpStep
  \/ SplitStep

SpecTransform == InitTransform /\ [][NextTransform]_vars

TypeOK ==
  /\ pc \in {"idle", "overwrite", "generation", "reading-log", "ratings", "data",
             "cdump", "dump", "split", "move", "archive", "sitemap", "tail"}
  /\ wd \in [Names -> Status]
  /\ ia \in [Items -> {"absent", "partial", "full"}]
  /\ exit \in {-1, 0, 1, 130}
  /\ runs \in 0..MaxRuns
  /\ faults \in 0..MaxFaults

(* ------------------------------ claims -------------------------------- *)
NotRun == {"skip", "noop"}
Clean(l) == \A i \in DOMAIN l : l[i].res \in {"ok", "skip", "noop"}
StagesWith(l, R) == {l[i].stage : i \in {k \in DOMAIN l : l[k].res \in R}}
SameCommand == runs >= 2 /\ prev.args = args /\ prev.yymm = yymm /\ ~OverwriteRequested

\* C1: when a run that went through without any failure is repeated with
\* the same command line (no --overwrite, same month, nothing changed in
\* between, and nothing failing in the second run either), the second run
\* executes no stage: every stage it reaches is skipped.
C1_Idempotent ==
  (SameCommand /\ prev.exit = 0 /\ Clean(prev.log) /\ faults = 0)
    => \A i \in DOMAIN log : log[i].res \in NotRun

\* C2: when a run was interrupted while stage S was executing, the run
\* repeated with the same command line (no --overwrite) skips every stage
\* that completed in the interrupted run and executes S again.
C2_Resume ==
  (SameCommand /\ prev.exit = 130)
    => \A i \in DOMAIN log :
         /\ log[i].stage \in StagesWith(prev.log, {"ok"}) => log[i].res = "skip"
         /\ log[i].stage \in StagesWith(prev.log, {"int"}) => log[i].res \in Executed

\* C3: once a generation stage has failed, the run executes nothing more:
\* no later stage, no move into the artifact directories, no Archive and no
\* Sitemap (Sort and Dump are one pipeline and fail together).
C3_FailFast ==
  \A i \in DOMAIN log :
    (log[i].stage \in GenStages /\ log[i].res = "fail")
      => /\ \A j \in DOMAIN log :
              j > i => (log[j].res \in NotRun \/ (log[i].stage = "Sort" /\ log[j].stage = "Dump"))
         /\ pc \notin {"archive", "sitemap", "tail"}
         /\ ~(pc = "idle" /\ exit = 0)

\* C4: every file or directory that a generation stage's skip check
\* accepted as an existing artifact had been fully written by a successful
\* execution of its stage.
C4_NoPartialAccepted ==
  \A i \in DOMAIN log :
    (log[i].stage \in GenStages /\ log[i].res = "skip") => log[i].st = "complete"

\* the artifact kinds of a stage; the directory ol_cdump_D of a finished
\* generation counts for every generation stage
ArtifactKinds(s) ==
  {"cdumpdir"} \cup
  (CASE s = "ReadingLog" -> {"reading-log"}
     [] s = "Ratings" -> {"ratings"}
     [] s = "RawExtract" -> {"data"}
     [] s = "CDump" -> {"cdump"}
     [] s \in {"Sort", "Dump"} -> {"dump"}
     [] s = "Split" -> TypeKinds
     [] OTHER -> {})

\* C5: a generation stage is skipped only because of an artifact of that
\* same stage for the run's own date; an artifact of another stage, of
\* another date, or an undated file never causes a skip.
C5_SkipKeyedOnStageAndDate ==
  \A i \in DOMAIN log :
    (log[i].stage \in GenStages /\ log[i].res = "skip")
      => /\ log[i].by.kind \in ArtifactKinds(log[i].stage)
         /\ log[i].by.date = args.date

\* C6: in a run with --overwrite, once the overwrite step is done no
\* artifact of the run date is left (raw extract included), and no
\* generation stage is skipped.
C6_OverwriteDeletesAll ==
  (OverwriteRequested /\ pc \notin {"idle", "overwrite"})
    => /\ pc = "generation" =>
            (wd[DataName] = "none" /\ \A n \in Names : n.date = args.date => wd[n] = "none")
       /\ \A i \in DOMAIN log : log[i].stage \in GenStages => log[i].res # "skip"

\* C7: the stages of a run are handled in the order ReadingLog, Ratings,
\* RawExtract, CDump, Sort, Dump, Split, Archive, Sitemap, none before all
\* the earlier ones are done with, and a stage that reads an artifact of an
\* earlier stage is executed only when that artifact exists.
C7_StrictOrder ==
  /\ \A i \in DOMAIN log : log[i].stage = Stages[i]
  /\ \A i \in DOMAIN log : log[i].res \in Executed => log[i].input

\* C8: a run that ends with exit status 0 had no failed stage.
C8_ExitStatus ==
  (pc = "idle" /\ exit = 0) => \A i \in DOMAIN log : log[i].res # "fail"

\* C9: in a run with --archive and no credentials file, no stage is
\* executed and no upload is attempted.
C9_ArchiveNeedsCredentials ==
  /\ (ArchiveRequested /\ ~creds) => \A i \in DOMAIN log : log[i].res \notin Executed
  /\ \A u \in uploads : u.creds

\* C10: the Archive stage never uploads an item that is already fully
\* present in external storage.
C10_NoReupload ==
  \A u \in uploads : u.before # "full"

\* C11: when the Archive stage has run, every item that is absent from
\* external storage has had its upload attempted in that run, the cdump
\* item also when the dump item is already present.
C11_PerItemDecision ==
  (ArchiveRequested /\ ~testing /\ pc \in {"sitemap", "tail"})
    => \A k \in {"dump", "cdump"} :
         ia[Item(k)] = "absent" => \E u \in uploads : u.item = Item(k)

\* C12: an upload tries at most 300 times again before it gives up, and
\* whenever the dump item's upload was attempted the cdump item's upload
\* was attempted too, whatever the first one achieved.
C12_BoundedRetrySiblings ==
  /\ \A u \in uploads : u.tries <= Retries + 1
  /\ \A u \in uploads :
       u.item.kind = "dump" => \E v \in uploads : v.item = [kind |-> "cdump", date |-> u.item.date]

\* C12 witness: the dump upload gave up after using all its retries and
\* the cdump upload of the same run succeeded
C12_Witness ==
  \E u, v \in uploads :
    /\ u.item.kind = "dump" /\ u.res # "full" /\ u.tries = Retries + 1
    /\ v.item.kind = "cdump" /\ v.res = "full"

\* a step of the script that leaves every file and directory of the
\* working directory in place
NoDelete == \A n \in Names : wd[n] # "none" => wd'[n] # "none"
NoArchival == uploads' = uploads /\ ia' = ia /\ "list-dump" \notin events'

C14_ScratchRemoved ==
  pc = "idle" => ~oldumpsort

\* C17: an invocation with no arguments ends at once with exit status 1,
\* executes no stage and creates or deletes no file or directory.
C17_NoArgsUsage ==
  [][(pc = "idle" /\ runs' = runs + 1 /\ args'.date = NoDate)
       => /\ exit' = 1 /\ pc' = "idle"
          /\ log' = <<>> /\ events' = {} /\ uploads' = {}
          /\ UNCHANGED <<wd, parentData, sitemaps, oldumpsort, ia>>]_vars

\* C17 witness: a run without arguments has ended with status 1 while
\* files of an earlier run are in the working directory
C17_Witness ==
  runs = 2 /\ args.date = NoDate /\ pc = "idle" /\ exit = 1 /\ Existing # {}

\* C18: archive_dumps is called exactly when $2 is --archive and the
\* testing switch is off, and cleanup is called exactly when --overwrite
\* is among the arguments.
C18_ArchiveSecondArgOnly ==
  /\ pc \in {"sitemap", "tail"}
       => ("list-dump" \in events <=> (args.a2 = "--archive" /\ ~testing))
  /\ pc \notin {"idle", "overwrite"}
       => ("cleanup" \in events <=> "--overwrite" \in {args.a2, args.a3})

\* C18 witness: `<date> --overwrite --archive` has cleaned up and has
\* passed the Archive stage without archiving
C18_Witness ==
  /\ args.a2 = "--overwrite" /\ args.a3 = "--archive" /\ ~testing /\ pc = "tail"
  /\ "cleanup" \in events /\ "list-dump" \notin events /\ uploads = {}

SitemapSkipped == log'[Len(log')].stage = "Sitemap" /\ log'[Len(log')].res = "skip"

Of(c, k) == {c[i] : i \in {j \in DOMAIN c : c[j].key = k}}
Latest(c, k) == CHOOSE e \in Of(c, k) : \A e2 \in Of(c, k) : e2.rev <= e.rev
Live(c, k) == Of(c, k) # {} /\ ~Latest(c, k).deleted
RowsOf(k) == {i \in DOMAIN tf.rows : tf.rows[i].key = k}

\* C15: when the dump command has read its whole (sorted) input, its
\* output holds exactly one row for each key whose entry of maximum
\* revision is not deleted, that row being this entry, and no row for any
\* other key.
C15_LatestVersionReduce ==
  tf.phase \in {"split", "done"}
    => \A k \in Keys :
         /\ Cardinality(RowsOf(k)) = (IF Live(tf.input, k) THEN 1 ELSE 0)
         /\ \A i \in RowsOf(k) : tf.rows[i] = Latest(tf.input, k)

\* C15 witness: the input was not in order, one key had two revisions
\* and came out with its later one, another key's latest entry was deleted
\* and came out with no row
C15_Witness ==
  /\ tf.phase = "done"
  /\ tf.input # tf.stream
  /\ \E k \in Keys : Cardinality(Of(tf.input, k)) = 2 /\ Live(tf.input, k) /\ RowsOf(k) # {}
  /\ \E k \in Keys : Of(tf.input, k) # {} /\ ~Live(tf.input, k)

RowsOfType(t) == LET Test(r) == r.type = t IN SelectSeq(tf.rows, Test)
RECURSIVE Total(_)
Total(F) == IF F = {} THEN 0
            ELSE LET f == CHOOSE x \in F : TRUE IN Len(tf.files[f]) + Total(F \ {f})

\* C16: when the split has read all its rows, the file of each type holds
\* exactly the rows of that type in the order received, and the files
\* together hold as many rows as were read.
C16_SplitPartition ==
  tf.phase = "done"
    => /\ \A t \in Types : tf.files[TypeKind(t)] = RowsOfType(t)
       /\ Total(DOMAIN tf.files) = Len(tf.rows)

\* C16 witness: rows of two types were split
C16_Witness ==
  /\ tf.phase = "done"
  /\ \A t \in Types : RowsOfType(t) # <<>>
====
